---- MODULE Spec2Model ----
(***************************************************************************)
(* A model of pex/common.py: the Chroot overlay and its fileset tagging,   *)
(* safe_copy (hard link with copy-and-rename fallback) and the             *)
(* MktempTeardownRegistry.                                                 *)
(*                                                                         *)
(* Paths are sequences of one-character strings, so that normpath,         *)
(* startswith, dirname and join work on characters as the Python code      *)
(* does.  The filesystem maps absolute normalized paths to nodes; regular  *)
(* files point at inodes so that hard links share content.                 *)
(***************************************************************************)
EXTENDS Integers, Sequences, FiniteSets, TLC

VARIABLES
    filesets,   \* Chroot.filesets: label -> set of paths (keys appear on first use)
    fs,         \* the filesystem: absolute path -> node
    inodes,     \* inode number -> [data, x]
    last,       \* how the Chroot call made last ended: "ok" or what it raised
    cloned,     \* the Chroot that clone() built, and how clone() ended
    zipped,     \* the archive the last zip() call wrote, and what it read
    hasLink,    \* hasattr(os, "link") of the platform
    pc,         \* safe_copy callers: position of each caller
    call,       \* safe_copy callers: arguments and bookkeeping of the running call
    done,       \* safe_copy callers: number of finished calls
    registry,   \* MktempTeardownRegistry._registry of each process: pid -> set object
    heap,       \* the set objects of each process: object id -> set of paths
    lock,       \* MktempTeardownRegistry._lock of each process: owning thread or NoThread
    tpc,        \* registry threads: position of each thread
    tcall,      \* registry threads: locals of the running call
    forked,     \* whether the child process exists
    dirs,       \* the temporary directories that exist on disk
    rmtreed,    \* every (pid, path) handed to rmtree so far
    returned,   \* every (pid, path) a register call has returned for
    made        \* how many register and teardown calls have begun

chrootVars == <<filesets, last, cloned, zipped>>
fsVars == <<fs, inodes>>
copyVars == <<hasLink, pc, call, done>>
regVars == <<registry, heap, lock, tpc, tcall, forked, dirs, rmtreed, returned, made>>
vars == <<chrootVars, fsVars, copyVars, regVars>>

-----------------------------------------------------------------------------
(* Strings as character sequences                                          *)

sep == "/"
curdir == <<".">>
pardir == <<".", ".">>
empty == <<>>

startswith(s, prefix) ==
    /\ Len(s) >= Len(prefix)
    /\ SubSeq(s, 1, Len(prefix)) = prefix

\* str.rfind(sep) + 1: the index just after the last separator, 0 when none
rfindSep(s) ==
    LET hits == {i \in 1..Len(s) : s[i] = sep}
    IN  IF hits = {} THEN 0 ELSE CHOOSE i \in hits : \A j \in hits : j <= i

RECURSIVE rstripSep(_)
rstripSep(s) ==
    IF s # empty /\ s[Len(s)] = sep THEN rstripSep(SubSeq(s, 1, Len(s) - 1)) ELSE s

\* str.split(sep): the components between separators, empty ones included
RECURSIVE split(_)
split(s) ==
    LET hits == {i \in 1..Len(s) : s[i] = sep}
    IN  IF hits = {}
        THEN <<s>>
        ELSE LET i == CHOOSE k \in hits : \A j \in hits : k <= j
             IN  <<SubSeq(s, 1, i - 1)>> \o split(SubSeq(s, i + 1, Len(s)))

\* sep.join(comps)
RECURSIVE joinComps(_)
joinComps(comps) ==
    IF comps = <<>> THEN empty
    ELSE IF Len(comps) = 1 THEN comps[1]
    ELSE comps[1] \o <<sep>> \o joinComps(Tail(comps))

\* the loop of posixpath.normpath over the components
RECURSIVE normComps(_, _, _)
normComps(comps, new, initial) ==
    IF comps = <<>> THEN new
    ELSE LET comp == Head(comps)
             rest == Tail(comps)
         IN  IF comp = empty \/ comp = curdir
             THEN normComps(rest, new, initial)
             ELSE IF \/ comp # pardir
                     \/ (initial = 0 /\ new = <<>>)
                     \/ (new # <<>> /\ new[Len(new)] = pardir)
                  THEN normComps(rest, Append(new, comp), initial)
                  ELSE IF new # <<>>
                       THEN normComps(rest, SubSeq(new, 1, Len(new) - 1), initial)
                       ELSE normComps(rest, new, initial)

\* os.path.normpath (POSIX)
normInitial(path) ==
    IF startswith(path, <<sep, sep>>) /\ ~startswith(path, <<sep, sep, sep>>) THEN 2
    ELSE IF startswith(path, <<sep>>) THEN 1 ELSE 0
normLead(initial) ==
    IF initial = 2 THEN <<sep, sep>> ELSE IF initial = 1 THEN <<sep>> ELSE empty
normFrom(path, initial) ==
    normLead(initial) \o joinComps(normComps(split(path), <<>>, initial))
orCurdir(path) == IF path = empty THEN curdir ELSE path
normpath(path) ==
    IF path = empty THEN curdir ELSE orCurdir(normFrom(path, normInitial(path)))

\* os.path.dirname (POSIX)
dirnameOf(head) ==
    IF head # empty /\ \E i \in 1..Len(head) : head[i] # sep THEN rstripSep(head) ELSE head
dirname(p) == dirnameOf(SubSeq(p, 1, rfindSep(p)))

\* os.path.basename (POSIX)
basename(p) == SubSeq(p, rfindSep(p) + 1, Len(p))

\* os.path.join(a, b) (POSIX)
join(a, b) ==
    IF startswith(b, <<sep>>) THEN b
    ELSE IF a = empty \/ a[Len(a)] = sep THEN a \o b
    ELSE a \o <<sep>> \o b

-----------------------------------------------------------------------------
(* The filesystem.  A world w is [fs, inodes]; every operation returns the *)
(* world it leaves and the errno it raises ("" when it returns normally).  *)

NoErr == ""
DirNode == [kind |-> "dir", ino |-> 0, target |-> empty]
FileNode(i) == [kind |-> "file", ino |-> i, target |-> empty]
LinkNode(t) == [kind |-> "symlink", ino |-> 0, target |-> t]

World(f, i) == [fs |-> f, inodes |-> i]
Ret(w, e) == [w |-> w, err |-> e]

\* os.path.lexists: the name exists, symbolic links not followed
lexists(w, p) == normpath(p) \in DOMAIN w.fs

\* the name a path resolves to when a final symbolic link is followed
follow(w, q) ==
    IF q \in DOMAIN w.fs /\ w.fs[q].kind = "symlink" THEN normpath(w.fs[q].target) ELSE q
resolve(w, p) == follow(w, normpath(p))

hasKind(w, q, kind) == q \in DOMAIN w.fs /\ w.fs[q].kind = kind
exists(w, p) == resolve(w, p) \in DOMAIN w.fs
isdir(w, p) == hasKind(w, resolve(w, p), "dir")
isfile(w, p) == hasKind(w, resolve(w, p), "file")
inoOf(w, p) == w.fs[resolve(w, p)].ino

\* a new entry can be made at q: its parent is a directory
parentIsDir(w, q) == isdir(w, dirname(q))

\* the smallest inode number not in use
freshIno(w) == CHOOSE i \in 1..(Cardinality(DOMAIN w.inodes) + 1) : i \notin DOMAIN w.inodes

\* inodes no name refers to any more are freed
collect(f, i) ==
    LET live == {f[q].ino : q \in {r \in DOMAIN f : f[r].kind = "file"}}
    IN  World(f, [n \in (DOMAIN i) \cap live |-> i[n]])

\* os.mkdir
mkdirAt(w, q) ==
    IF q \in DOMAIN w.fs THEN Ret(w, "EEXIST")
    ELSE IF ~parentIsDir(w, q) THEN Ret(w, "ENOENT")
    ELSE Ret(World(w.fs @@ (q :> DirNode), w.inodes), NoErr)
mkdir(w, name) == mkdirAt(w, normpath(name))

\* os.path.split, and the second split os.makedirs does when the tail is empty
ossplit(p) == [head |-> dirname(p), tail |-> basename(p)]
splitAgain(s) == IF s.tail = empty THEN ossplit(s.head) ELSE s

\* os.makedirs: the missing ancestors first (an ancestor that exists is not an
\* error), then the leaf
RECURSIVE makedirs(_, _)
makedirsLeaf(name, tail, up) ==
    IF up.err \notin {NoErr, "EEXIST"} THEN up
    ELSE IF tail = curdir THEN Ret(up.w, NoErr)
    ELSE mkdir(up.w, name)
makedirsFrom(w, name, s) ==
    IF s.head # empty /\ s.tail # empty /\ ~exists(w, s.head)
    THEN makedirsLeaf(name, s.tail, makedirs(w, s.head))
    ELSE mkdir(w, name)
makedirs(w, name) == makedirsFrom(w, name, splitAgain(ossplit(name)))

\* safe_mkdir(directory, clean=False): the return inside finally discards every
\* exception, EEXIST or not
safe_mkdir(w, directory) == makedirs(w, directory).w

\* open(p, "wb") / open(p, "a"): follows a final symbolic link, creates the file
\* when absent, truncates it when asked
createFile(w, q, i) ==
    [w |-> World(w.fs @@ (q :> FileNode(i)), w.inodes @@ (i :> [data |-> "", x |-> FALSE])),
     err |-> NoErr, ino |-> i]
openAt(w, q, truncate) ==
    IF q \in DOMAIN w.fs
    THEN IF w.fs[q].kind = "dir" THEN [w |-> w, err |-> "EISDIR", ino |-> 0]
         ELSE [w |-> World(w.fs, [w.inodes EXCEPT ![w.fs[q].ino].data =
                                      IF truncate THEN "" ELSE @]),
               err |-> NoErr, ino |-> w.fs[q].ino]
    ELSE IF ~parentIsDir(w, q) THEN [w |-> w, err |-> "ENOENT", ino |-> 0]
    ELSE createFile(w, q, freshIno(w))
openForWrite(w, p, truncate) == openAt(w, resolve(w, p), truncate)

\* shutil.copy up to the point where both files are open: the destination inside
\* a directory, the same-file check, the source opened, the destination created
\* or truncated
sameFile(w, qs, qd) ==
    /\ hasKind(w, qs, "file") /\ hasKind(w, qd, "file")
    /\ w.fs[qs].ino = w.fs[qd].ino
copyOpenAt(w, src, d1) ==
    IF sameFile(w, resolve(w, src), resolve(w, d1))
    THEN [w |-> w, err |-> "SameFileError", ino |-> 0]
    ELSE IF ~exists(w, src) THEN [w |-> w, err |-> "ENOENT", ino |-> 0]
    ELSE IF isdir(w, src) THEN [w |-> w, err |-> "EISDIR", ino |-> 0]
    ELSE openForWrite(w, d1, TRUE)
copyOpen(w, src, dst) ==
    copyOpenAt(w, src, IF isdir(w, dst) THEN join(dst, basename(src)) ELSE dst)

\* shutil.copy's transfer of the bytes and of the permission bits into inode i
copyData(w, src, i) ==
    World(w.fs, [w.inodes EXCEPT ![i] = w.inodes[inoOf(w, src)]])

\* the transfer stopped by an error part of the way
copyPartial(w, i) ==
    World(w.fs, [w.inodes EXCEPT ![i].data = "partial"])

\* shutil.copy(src, dst); fails says the transfer hits an OS error (disk full)
\* after the destination was opened
copyTransfer(o, src, fails) ==
    IF o.err # NoErr THEN Ret(o.w, o.err)
    ELSE IF fails THEN Ret(copyPartial(o.w, o.ino), "ENOSPC")
    ELSE Ret(copyData(o.w, src, o.ino), NoErr)
shutil_copy(w, src, dst, fails) == copyTransfer(copyOpen(w, src, dst), src, fails)

\* os.link(src, dst).  The kernel looks the source up, then refuses an existing
\* destination, then a cross-device link, then a protected hard link; env is
\* what the platform answers once source and destination are in order
\* A source that is a symbolic link is not followed: the new name is a link to
\* the same target.
linkAt(w, qs, q, env) ==
    IF qs \notin DOMAIN w.fs \/ hasKind(w, qs, "dir") THEN Ret(w, "ENOENT")
    ELSE IF q \in DOMAIN w.fs THEN Ret(w, "EEXIST")
    ELSE IF ~parentIsDir(w, q) THEN Ret(w, "ENOENT")
    ELSE IF env # "ok" THEN Ret(w, env)
    ELSE Ret(World(w.fs @@ (q :> w.fs[qs]), w.inodes), NoErr)
os_link(w, src, dst, env) == linkAt(w, normpath(src), normpath(dst), env)

\* os.rename(a, b): b's name now refers to a's file, atomically
renameAt(w, qa, qb) ==
    IF qa \notin DOMAIN w.fs THEN Ret(w, "ENOENT")
    ELSE IF qa = qb THEN Ret(w, NoErr)
    ELSE IF hasKind(w, qb, "dir") THEN Ret(w, "EISDIR")
    ELSE IF ~parentIsDir(w, qb) THEN Ret(w, "ENOENT")
    ELSE Ret(collect([p \in (DOMAIN w.fs \cup {qb}) \ {qa} |->
                          IF p = qb THEN w.fs[qa] ELSE w.fs[p]],
                     w.inodes), NoErr)
os_rename(w, a, b) == renameAt(w, normpath(a), normpath(b))

\* os.symlink(target, p)
symlinkAt(w, target, q) ==
    IF q \in DOMAIN w.fs THEN Ret(w, "EEXIST")
    ELSE IF ~parentIsDir(w, q) THEN Ret(w, "ENOENT")
    ELSE Ret(World(w.fs @@ (q :> LinkNode(target)), w.inodes), NoErr)
os_symlink(w, target, p) == symlinkAt(w, target, normpath(p))

-----------------------------------------------------------------------------
(* safe_copy, as one uninterrupted call                                    *)

\* do_copy writing straight to dest, no temporary sibling
tempName_is_dest(w, dest) == dest

\* dest + uuid4().hex: a sibling name no file has yet
tempName(w, dest) ==
    LET free == {k \in 1..(Cardinality(DOMAIN w.fs) + 1) :
                    (dest \o <<"#", ToString(k)>>) \notin DOMAIN w.fs}
    IN  dest \o <<"#", ToString(CHOOSE k \in free : \A j \in free : k <= j)>>

\* do_copy: copy to a temporary sibling, then rename it onto dest
renamed(r) == [w |-> r.w, err |-> r.err, from |-> "rename", copied |-> TRUE]
do_copyRename(dest, temp_dest, c) ==
    IF c.err # NoErr
    THEN [w |-> c.w, err |-> c.err, from |-> "copy", copied |-> TRUE]
    ELSE renamed(os_rename(c.w, temp_dest, dest))
do_copyTo(w, source, dest, temp_dest, fails) ==
    do_copyRename(dest, temp_dest, shutil_copy(w, source, temp_dest, fails))
do_copy(w, source, dest, fails) == do_copyTo(w, source, dest, tempName(w, dest), fails)

\* the except clause treating EEXIST like EPERM and EXDEV: overwrite ignored
onLinkError_always_copy(errno, overwrite) ==
    IF errno \in {"EEXIST", "EPERM", "EXDEV"} THEN "copy" ELSE "raise"

\* the except clause without the EPERM case
onLinkError_no_eperm(errno, overwrite) ==
    IF errno = "EEXIST" THEN (IF overwrite THEN "copy" ELSE "skip")
    ELSE IF errno = "EXDEV" THEN "copy"
    ELSE "raise"

\* safe_copy's except clause: what follows an OSError of os.link
onLinkError(errno, overwrite) ==
    IF errno = "EEXIST" THEN (IF overwrite THEN "copy" ELSE "skip")
    ELSE IF errno \in {"EPERM", "EXDEV"} THEN "copy"
    ELSE "raise"

\* safe_copy's branch for a platform without os.link
withoutLink(destExists, overwrite) ==
    IF destExists THEN (IF overwrite THEN "copy" ELSE "skip") ELSE "copy"

\* safe_copy(source, dest, overwrite).  hl is hasattr(os, "link"), env is the
\* platform's answer to the link, fails whether the copy hits an OS error.
\* from names the step an error comes from, copied whether the source was opened
safe_copyDo(w, source, dest, fails, l, todo) ==
    CASE todo = "linked" -> [w |-> l.w, err |-> NoErr, from |-> "", copied |-> FALSE]
      [] todo = "skip" -> [w |-> w, err |-> NoErr, from |-> "", copied |-> FALSE]
      [] todo = "copy" -> do_copy(w, source, dest, fails)
      [] todo = "raise" -> [w |-> w, err |-> l.err, from |-> "link", copied |-> FALSE]
safe_copyLinked(w, source, dest, overwrite, hl, fails, l) ==
    safe_copyDo(w, source, dest, fails, l,
                IF hl
                THEN (IF l.err = NoErr THEN "linked" ELSE onLinkError(l.err, overwrite))
                ELSE withoutLink(exists(w, dest), overwrite))
safe_copy(w, source, dest, overwrite, hl, env, fails) ==
    safe_copyLinked(w, source, dest, overwrite, hl, fails, os_link(w, source, dest, env))

-----------------------------------------------------------------------------
(* Chroot                                                                  *)

chroot == <<"/", "r">>
NoLabel == "<None>"

\* chmod_plus_x: the owner's x bit is set when the owner's r bit is; files made
\* by open() are readable by their owner
chmod_plus_x(w, p) ==
    World(w.fs, [w.inodes EXCEPT ![inoOf(w, p)].x = TRUE])

\* safe_open(filename, "a"): the directories leading to the file are made first
safe_openIn(w, filename, parent_dir) ==
    openForWrite(IF parent_dir # empty THEN safe_mkdir(w, parent_dir) ELSE w, filename, FALSE)
safe_open(w, filename) == safe_openIn(w, filename, dirname(filename))

\* touch(file): with safe_open(file, "a"): os.utime(file, None)
opened(o) == Ret(o.w, o.err)
touch(w, file) == opened(safe_open(w, file))

\* _normalize with the `..` test left out
_normalize_sep_only(dst) ==
    LET n == normpath(dst)
    IN  [err |-> startswith(n, <<sep>>), dst |-> n]

\* _normalize with the call of normpath left out
_normalize_unnormalized(dst) ==
    [err |-> startswith(dst, <<sep>>) \/ startswith(dst, pardir), dst |-> dst]

\* Chroot._normalize: err says Chroot.Error is raised
_normalizeCheck(dst) ==
    [err |-> startswith(dst, <<sep>>) \/ startswith(dst, pardir), dst |-> dst]
_normalize(dst) == _normalizeCheck(normpath(dst))

\* _check_tag with the comparison of the labels inverted
_check_tag_same_label(fsets, fn, label) ==
    \E fs_label \in DOMAIN fsets : fn \in fsets[fs_label] /\ fs_label = label

\* Chroot._check_tag: TRUE when ChrootTaggingException is raised
_check_tag(fsets, fn, label) ==
    \E fs_label \in DOMAIN fsets : fn \in fsets[fs_label] /\ fs_label # label

\* self.filesets[label].add(fn) on a defaultdict(set)
addToFileset(fsets, fn, label) ==
    IF label \in DOMAIN fsets
    THEN [fsets EXCEPT ![label] = @ \cup {fn}]
    ELSE fsets @@ (label :> {fn})

\* _tag adding the path before it checks the tag
_tag_add_first(fsets, fn, label) ==
    [err |-> _check_tag(fsets, fn, label), filesets |-> addToFileset(fsets, fn, label)]

\* _tag checking the tag and registering nothing
_tag_never_adds(fsets, fn, label) ==
    [err |-> _check_tag(fsets, fn, label), filesets |-> fsets]

\* Chroot._tag
_tag(fsets, fn, label) ==
    IF _check_tag(fsets, fn, label)
    THEN [err |-> TRUE, filesets |-> fsets]
    ELSE [err |-> FALSE, filesets |-> addToFileset(fsets, fn, label)]

\* Chroot._ensure_parent
ensureParentIn(root, w, path) == safe_mkdir(w, dirname(join(root, path)))
_ensure_parent(w, path) == ensureParentIn(chroot, w, path)

\* an add operation ended by the exception g.err: the mapping is as _normalize
\* and _tag left it, the disk as it was
Raised(c, g) == [filesets |-> g.filesets, w |-> c.w, result |-> g.err]
Outcome(fsets, r) ==
    [filesets |-> fsets, w |-> r.w, result |-> IF r.err = NoErr THEN "ok" ELSE r.err]

\* the first two statements of every add operation: dst = self._normalize(dst),
\* then self._tag(dst, label).  err names the exception raised, if any
tagged(n, t) ==
    [err |-> IF t.err THEN "ChrootTaggingException" ELSE NoErr,
     dst |-> n.dst, filesets |-> t.filesets]
tagNormalized(c, n, label) ==
    IF n.err THEN [err |-> "Error", dst |-> n.dst, filesets |-> c.filesets]
    ELSE tagged(n, _tag(c.filesets, n.dst, label))
normalizeAndTag(c, dst, label) == tagNormalized(c, _normalize(dst), label)

\* Chroot.copy
copyTagged(c, src, g, fails) ==
    IF g.err # NoErr THEN Raised(c, g)
    ELSE Outcome(g.filesets,
                 shutil_copy(_ensure_parent(c.w, g.dst), src, join(chroot, g.dst), fails))
Chroot_copy(c, src, dst, label, fails) ==
    copyTagged(c, src, normalizeAndTag(c, dst, label), fails)

\* Chroot.link
\* (root is self.chroot: clone() calls link on the Chroot it makes)
linkTaggedIn(root, c, src, g, hl, env, fails) ==
    IF g.err # NoErr THEN Raised(c, g)
    ELSE Outcome(g.filesets,
                 safe_copy(ensureParentIn(root, c.w, g.dst), src, join(root, g.dst),
                           FALSE, hl, env, fails))
linkIn(root, c, src, dst, label, hl, env, fails) ==
    linkTaggedIn(root, c, src, normalizeAndTag(c, dst, label), hl, env, fails)
Chroot_link(c, src, dst, label, hl, env, fails) ==
    linkIn(chroot, c, src, dst, label, hl, env, fails)

\* Chroot.symlink (src is given absolute, so os.path.abspath normalizes it)
symlinkTagged(c, src, g) ==
    IF g.err # NoErr THEN Raised(c, g)
    ELSE Outcome(g.filesets,
                 os_symlink(_ensure_parent(c.w, g.dst), normpath(src), join(chroot, g.dst)))
Chroot_symlink(c, src, dst, label) ==
    symlinkTagged(c, src, normalizeAndTag(c, dst, label))

\* Chroot.write with mode="wb": wp.write(data), then chmod_plus_x(wp.name)
writeData(w, i, data) == World(w.fs, [w.inodes EXCEPT ![i].data = data])
writeOpened(fsets, data, full, executable, o) ==
    IF o.err # NoErr THEN Outcome(fsets, Ret(o.w, o.err))
    ELSE IF executable
    THEN Outcome(fsets, Ret(chmod_plus_x(writeData(o.w, o.ino, data), full), NoErr))
    ELSE Outcome(fsets, Ret(writeData(o.w, o.ino, data), NoErr))
writeTagged(c, data, g, executable) ==
    IF g.err # NoErr THEN Raised(c, g)
    ELSE writeOpened(g.filesets, data, join(chroot, g.dst), executable,
                     openForWrite(_ensure_parent(c.w, g.dst), join(chroot, g.dst), TRUE))
Chroot_write(c, data, dst, label, executable) ==
    writeTagged(c, data, normalizeAndTag(c, dst, label), executable)

\* Chroot.touch
touchTagged(c, g) ==
    IF g.err # NoErr THEN Raised(c, g)
    ELSE Outcome(g.filesets, touch(c.w, join(chroot, g.dst)))
Chroot_touch(c, dst, label) == touchTagged(c, normalizeAndTag(c, dst, label))

\* Chroot.clone: the (label, fn) pairs of self.filesets
pairsOf(fsets) ==
    UNION {{[label |-> label, fn |-> fn] : fn \in fsets[label]} : label \in DOMAIN fsets}

\* clone replaying every path under the default label
replayLabel_default(x) == NoLabel

\* clone: label=label
replayLabel(x) == x.label

\* clone: the two for loops, in every order the dict and the sets can be iterated
\* in; an exception from link ends the loops.  The set of possible outcomes
RECURSIVE replay(_, _, _, _, _)
replay(new_chroot, todo, into, hl, env) ==
    IF todo = {} \/ new_chroot.result # "ok" THEN {new_chroot}
    ELSE UNION {replay(linkIn(into, new_chroot, join(chroot, x.fn), x.fn, replayLabel(x),
                              hl, env, FALSE),
                       todo \ {x}, into, hl, env) : x \in todo}

\* Chroot.clone(into): new_chroot = Chroot(into), then the replay
Chroot_clone(c, into, hl, env) ==
    replay([filesets |-> <<>>, w |-> safe_mkdir(c.w, into), result |-> "ok"],
           pairsOf(c.filesets), into, hl, env)

-----------------------------------------------------------------------------
(* The Chroot specification: one caller adds paths to one Chroot.  The     *)
(* byte transfer of a copy is taken to complete here; its failure part of  *)
(* the way is explored in the safe_copy specification.                     *)

Labels == {NoLabel, "A"}
\* /s is a file; /m/t does not exist, nor does its directory
Srcs == {<<"/", "s">>, <<"/", "m", "/", "t">>}
Dsts == { <<"a">>,
          <<"d", "/", "a">>,
          <<"d", "/", ".", ".", "/", "a">>,
          <<".", ".", "/", "a">>,
          <<"d", "/", ".", ".", "/", ".", ".", "/", "a">>,
          <<"/", "a">>,
          <<".", ".", "a">> }
Datas == {"w"}
LinkEnvs == {"ok", "EXDEV", "EPERM", "EMLINK"}

\* the filesystem a Chroot(chroot) is built on: /, the chroot's directory (made
\* by safe_mkdir in __init__) and the source file /s
InitFs ==
    /\ fs = (<<sep>> :> DirNode) @@ (chroot :> DirNode) @@ (<<"/", "s">> :> FileNode(1))
    /\ inodes = (1 :> [data |-> "s", x |-> FALSE])

NoCall == "none"

IdleCopy == pc = <<>> /\ call = <<>> /\ done = <<>>
IdleRegistry ==
    /\ registry = <<>> /\ heap = <<>> /\ lock = <<>> /\ tpc = <<>> /\ tcall = <<>>
    /\ forked = FALSE /\ dirs = {} /\ rmtreed = {} /\ returned = {}
    /\ made = 0
NotCloned == [result |-> NoCall, filesets |-> <<>>, source |-> <<>>]
NotZipped == [result |-> NoCall]
IdleChroot == filesets = <<>> /\ last = NoCall /\ cloned = NotCloned /\ zipped = NotZipped

Init ==
    /\ IdleChroot
    /\ InitFs
    /\ hasLink \in BOOLEAN
    /\ IdleCopy
    /\ IdleRegistry

Self == [filesets |-> filesets, w |-> World(fs, inodes)]

Apply(r) ==
    /\ filesets' = r.filesets
    /\ fs' = r.w.fs
    /\ inodes' = r.w.inodes
    /\ last' = r.result
    /\ UNCHANGED <<cloned, zipped, copyVars, regVars>>

Copy ==
    \E src \in Srcs, dst \in Dsts, label \in Labels :
        Apply(Chroot_copy(Self, src, dst, label, FALSE))

Link ==
    \E src \in Srcs, dst \in Dsts, label \in Labels, env \in LinkEnvs :
        Apply(Chroot_link(Self, src, dst, label, hasLink, env, FALSE))

Symlink ==
    \E src \in Srcs, dst \in Dsts, label \in Labels :
        Apply(Chroot_symlink(Self, src, dst, label))

Write ==
    \E data \in Datas, dst \in Dsts, label \in Labels, executable \in BOOLEAN :
        Apply(Chroot_write(Self, data, dst, label, executable))

Touch ==
    \E dst \in Dsts, label \in Labels :
        Apply(Chroot_touch(Self, dst, label))

Next == Copy \/ Link \/ Symlink \/ Write \/ Touch

Spec == Init /\ [][Next]_vars

-----------------------------------------------------------------------------
(* Properties of the Chroot                                                *)

Here == World(fs, inodes)

\* every way of calling an add operation on (dst, label) from the chroot c, with
\* every source, platform answer and transfer outcome: the set of outcomes
CallsFrom(c, dst, label) ==
    {Chroot_copy(c, src, dst, label, fails) : src \in Srcs, fails \in BOOLEAN}
    \cup {Chroot_link(c, x[1], dst, label, hasLink, x[2], x[3]) :
              x \in Srcs \X LinkEnvs \X BOOLEAN}
    \cup {Chroot_symlink(c, src, dst, label) : src \in Srcs}
    \cup {Chroot_write(c, x[1], dst, label, x[2]) : x \in Datas \X BOOLEAN}
    \cup {Chroot_touch(c, dst, label)}

\* a call with this outcome raised without touching the mapping or the disk
Untouched(r) == r.filesets = filesets /\ r.w = Here

\* the path dst names is in the fileset of a label other than label
Conflicts(dst, label) ==
    \E other \in DOMAIN filesets : other # label /\ normpath(dst) \in filesets[other]

\* C1: in every reachable state of a Chroot, whatever calls succeeded or failed,
\* each relative path is in the fileset of at most one label (None included).
C1_OneLabelPerPath ==
    \A l1 \in DOMAIN filesets : \A l2 \in DOMAIN filesets :
        l1 # l2 => filesets[l1] \cap filesets[l2] = {}

\* C1's case: both labels own paths and the last call was refused as a conflict
C1_Witness ==
    /\ last = "ChrootTaggingException"
    /\ \A l \in Labels : l \in DOMAIN filesets /\ filesets[l] # {}

\* C2: for copy, link, symlink, write and touch alike, adding a path that is in
\* the fileset of another label raises ChrootTaggingException, and the failed
\* call changes neither the label->paths mapping nor anything on disk.
C2_ConflictRaisesAndChangesNothing ==
    \A dst \in Dsts : \A label \in Labels :
        Conflicts(dst, label) =>
            \A r \in CallsFrom(Self, dst, label) :
                r.result = "ChrootTaggingException" /\ Untouched(r)

\* C2's case: a conflicting add was just refused, and the conflict it met stands
C2_Witness ==
    /\ last = "ChrootTaggingException"
    /\ \E dst \in Dsts : \E label \in Labels : Conflicts(dst, label)

\* C3: for every add operation, a call that succeeded succeeds again when it is
\* repeated with the same path and label, and the path is then in that label's
\* fileset.  (Stated as the claim states it; the code refutes it.)
C3_SecondAddSucceeds ==
    \A dst \in Dsts : \A label \in Labels :
        \A src \in Srcs : \A env \in LinkEnvs : \A data \in Datas : \A ex \in BOOLEAN :
            LET again(r1, r2) ==
                    r1.result = "ok" =>
                        /\ r2.result = "ok"
                        /\ label \in DOMAIN r2.filesets
                        /\ normpath(dst) \in r2.filesets[label]
                state(r) == [filesets |-> r.filesets, w |-> r.w]
                c1 == Chroot_copy(Self, src, dst, label, FALSE)
                l1 == Chroot_link(Self, src, dst, label, hasLink, env, FALSE)
                s1 == Chroot_symlink(Self, src, dst, label)
                w1 == Chroot_write(Self, data, dst, label, ex)
                t1 == Chroot_touch(Self, dst, label)
            IN  /\ again(c1, Chroot_copy(state(c1), src, dst, label, FALSE))
                /\ again(l1, Chroot_link(state(l1), src, dst, label, hasLink, env, FALSE))
                /\ again(s1, Chroot_symlink(state(s1), src, dst, label))
                /\ again(w1, Chroot_write(state(w1), data, dst, label, ex))
                /\ again(t1, Chroot_touch(state(t1), dst, label))

\* the components of dst between separators
Components(dst) == split(dst)
HasParentComponent(dst) == \E i \in 1..Len(Components(dst)) : Components(dst)[i] = pardir

\* how deep below the start the components lead; -1 once a `..` has climbed
\* above the start
RECURSIVE DepthAfter(_, _)
DepthAfter(comps, depth) ==
    IF depth < 0 \/ comps = <<>> THEN depth
    ELSE IF Head(comps) \in {empty, curdir} THEN DepthAfter(Tail(comps), depth)
    ELSE IF Head(comps) = pardir THEN DepthAfter(Tail(comps), depth - 1)
    ELSE DepthAfter(Tail(comps), depth + 1)

ClimbsAboveRoot(dst) == DepthAfter(Components(dst), 0) < 0

\* C4 as claimed: a destination with a `..` component, or one starting with a
\* separator, is rejected with Chroot.Error, nothing changed.
C4_AnyParentComponentRejected ==
    \A dst \in Dsts : \A label \in Labels :
        (HasParentComponent(dst) \/ startswith(dst, <<sep>>)) =>
            \A r \in CallsFrom(Self, dst, label) : r.result = "Error" /\ Untouched(r)

\* C4 as amended: a destination that starts with a separator, or whose `..`
\* components climb above the chroot's root, is rejected with Chroot.Error by
\* every add operation before the mapping or the disk is changed.
C4_EscapingDestinationRejected ==
    \A dst \in Dsts : \A label \in Labels :
        (ClimbsAboveRoot(dst) \/ startswith(dst, <<sep>>)) =>
            \A r \in CallsFrom(Self, dst, label) : r.result = "Error" /\ Untouched(r)

\* C4's case: an escaping destination was just rejected by a Chroot that
\* already tracks paths
C4_Witness ==
    /\ last = "Error"
    /\ \E l \in DOMAIN filesets : filesets[l] # {}

\* C5: every stored path is normalized, relative and inside the root: no leading
\* separator and no `..` component.
C5_StoredPathsAreSafe ==
    \A l \in DOMAIN filesets : \A p \in filesets[l] :
        /\ normpath(p) = p
        /\ ~startswith(p, <<sep>>)
        /\ ~HasParentComponent(p)

\* C5's case: paths at both depths are stored, the last of them by a call that
\* went through
C5_Witness ==
    /\ last = "ok"
    /\ \E l1 \in DOMAIN filesets : <<"a">> \in filesets[l1]
    /\ \E l2 \in DOMAIN filesets : <<"d", "/", "a">> \in filesets[l2]

-----------------------------------------------------------------------------
(* The safe_copy specification: one or two callers run safe_copy step by   *)
(* step towards the same destination.  Every system call is one step; the  *)
(* byte transfer of shutil.copy takes several.                             *)

MaxCalls == 2                               \* calls made in all
Callers == {1, 2}
copyDest == join(chroot, <<"a">>)
CopySrcs == {<<"/", "s">>, <<"/", "t">>}    \* both exist, with different content
Complete == {"s", "t", "old"}               \* the whole content of a source, or of
                                            \* the file at dest before any call

\* what a reader finds at dest
DestContent(w) ==
    IF ~exists(w, copyDest) THEN "absent" ELSE w.inodes[inoOf(w, copyDest)].data

NewCall(source, overwrite) ==
    [source |-> source, overwrite |-> overwrite,
     before |-> "none",     \* what was at dest when the call began
     temp_dest |-> empty,   \* do_copy's temp_dest
     ino |-> 0,             \* the inode shutil.copy holds open for writing
     linkErr |-> NoErr,     \* errno of the OSError os.link raised, if any
     err |-> NoErr,         \* the exception the call ended with, if any
     from |-> "",           \* the step that exception came from
     copied |-> FALSE,      \* whether the call opened the source to copy it
     first |-> "none",      \* what was at dest when the caller's first call ended
     firstErr |-> NoErr]    \* the exception the caller's first call ended with

InitCopy ==
    /\ \E old \in BOOLEAN :
        /\ fs = (<<sep>> :> DirNode) @@ (chroot :> DirNode)
                @@ (<<"/", "s">> :> FileNode(1)) @@ (<<"/", "t">> :> FileNode(2))
                @@ (IF old THEN copyDest :> FileNode(3) ELSE <<>>)
        /\ inodes = (1 :> [data |-> "s", x |-> FALSE]) @@ (2 :> [data |-> "t", x |-> FALSE])
                    @@ (IF old THEN 3 :> [data |-> "old", x |-> FALSE] ELSE <<>>)
    /\ hasLink \in BOOLEAN
    /\ \E who \in {{1}, Callers} :
        /\ pc = [p \in who |-> "idle"]
        /\ done = [p \in who |-> 0]
        /\ call \in [who -> {NewCall(src, o) : src \in CopySrcs, o \in BOOLEAN}]
    /\ IdleChroot
    /\ IdleRegistry

\* the call returns or raises: the caller is idle again
\* (w is the world the call leaves)
Finish(p, c, w) ==
    /\ pc' = [pc EXCEPT ![p] = "idle"]
    /\ done' = [done EXCEPT ![p] = @ + 1]
    /\ call' = [call EXCEPT ![p] =
                  IF done[p] = 0
                  THEN [c EXCEPT !.first = DestContent(w), !.firstErr = c.err]
                  ELSE c]

Goto(p, c, where) ==
    /\ pc' = [pc EXCEPT ![p] = where]
    /\ call' = [call EXCEPT ![p] = c]
    /\ UNCHANGED done

RECURSIVE Sum(_, _)
Sum(f, S) == IF S = {} THEN 0 ELSE LET x == CHOOSE y \in S : TRUE IN f[x] + Sum(f, S \ {x})

\* the calls begun so far, by all callers
CallsBegun == Sum(done, DOMAIN done) + Cardinality({p \in DOMAIN pc : pc[p] # "idle"})

\* the call begins
Begin(p) ==
    /\ pc[p] = "idle"
    /\ CallsBegun < MaxCalls
    /\ Goto(p, [NewCall(call[p].source, call[p].overwrite) EXCEPT
                   !.first = call[p].first, !.firstErr = call[p].firstErr,
                   !.before = DestContent(Here)],
            IF hasLink THEN "link" ELSE "exists")
    /\ UNCHANGED <<fsVars, hasLink, chrootVars, regVars>>

\* os.link(source, dest) and the except clause
LinkStep(p) ==
    /\ pc[p] = "link"
    /\ \E env \in LinkEnvs :
        LET c == call[p]
            l == os_link(Here, c.source, copyDest, env)
            todo == IF l.err = NoErr THEN "linked" ELSE onLinkError(l.err, c.overwrite)
            c1 == [c EXCEPT !.linkErr = l.err]
        IN  /\ fs' = l.w.fs
            /\ inodes' = l.w.inodes
            /\ CASE todo \in {"linked", "skip"} -> Finish(p, c1, l.w)
                 [] todo = "copy" -> Goto(p, c1, "open")
                 [] todo = "raise" -> Finish(p, [c1 EXCEPT !.err = l.err, !.from = "link"], l.w)
    /\ UNCHANGED <<hasLink, chrootVars, regVars>>

\* elif os.path.exists(dest) on a platform without os.link
ExistsStep(p) ==
    /\ pc[p] = "exists"
    /\ LET todo == withoutLink(exists(Here, copyDest), call[p].overwrite)
       IN  IF todo = "skip" THEN Finish(p, call[p], Here) ELSE Goto(p, call[p], "open")
    /\ UNCHANGED <<fsVars, hasLink, chrootVars, regVars>>

\* do_copy: temp_dest is named and shutil.copy opens source and temp_dest
OpenStep(p) ==
    /\ pc[p] = "open"
    /\ LET c == call[p]
           temp_dest == tempName(Here, copyDest)
           o == copyOpen(Here, c.source, temp_dest)
           c1 == [c EXCEPT !.copied = TRUE]
       IN  /\ fs' = o.w.fs
           /\ inodes' = o.w.inodes
           /\ IF o.err # NoErr
              THEN Finish(p, [c1 EXCEPT !.err = o.err, !.from = "copy"], o.w)
              ELSE Goto(p, [c1 EXCEPT !.temp_dest = temp_dest, !.ino = o.ino], "write")
    /\ UNCHANGED <<hasLink, chrootVars, regVars>>

\* shutil.copy has written part of the bytes
WritePart(p) ==
    /\ pc[p] = "write"
    /\ inodes[call[p].ino].data = ""
    /\ inodes' = copyPartial(Here, call[p].ino).inodes
    /\ UNCHANGED <<fs, hasLink, pc, call, done, chrootVars, regVars>>

\* shutil.copy has written all the bytes and copied the mode
WriteAll(p) ==
    /\ pc[p] = "write"
    /\ inodes' = copyData(Here, call[p].source, call[p].ino).inodes
    /\ Goto(p, call[p], "rename")
    /\ UNCHANGED <<fs, hasLink, chrootVars, regVars>>

\* shutil.copy raises part of the way (disk full): temp_dest stays as it is
WriteFails(p) ==
    /\ pc[p] = "write"
    /\ Finish(p, [call[p] EXCEPT !.err = "ENOSPC", !.from = "copy"], Here)
    /\ UNCHANGED <<fsVars, hasLink, chrootVars, regVars>>

\* os.rename(temp_dest, dest)
RenameStep(p) ==
    /\ pc[p] = "rename"
    /\ LET r == os_rename(Here, call[p].temp_dest, copyDest)
       IN  /\ fs' = r.w.fs
           /\ inodes' = r.w.inodes
           /\ Finish(p, [call[p] EXCEPT !.err = r.err,
                                        !.from = IF r.err = NoErr THEN "" ELSE "rename"],
                     r.w)
    /\ UNCHANGED <<hasLink, chrootVars, regVars>>

Begins == \E p \in DOMAIN pc : Begin(p)
Links == \E p \in DOMAIN pc : LinkStep(p)
TestsExists == \E p \in DOMAIN pc : ExistsStep(p)
Opens == \E p \in DOMAIN pc : OpenStep(p)
WritesPart == \E p \in DOMAIN pc : WritePart(p)
WritesAll == \E p \in DOMAIN pc : WriteAll(p)
WriteRaises == \E p \in DOMAIN pc : WriteFails(p)
Renames == \E p \in DOMAIN pc : RenameStep(p)

NextCopy ==
    \/ Begins
    \/ Links
    \/ TestsExists
    \/ Opens
    \/ WritesPart
    \/ WritesAll
    \/ WriteRaises
    \/ Renames

SpecCopy == InitCopy /\ [][NextCopy]_vars

-----------------------------------------------------------------------------
(* Properties of safe_copy                                                 *)

Solo == DOMAIN pc = {1}
Idle(p) == pc[p] = "idle"
IsTemp(q) == startswith(q, copyDest \o <<"#">>)
SourceData(p) == inodes[inoOf(Here, call[p].source)].data
Transient == {"EEXIST", "EXDEV", "EPERM"}

\* C6: whatever the interleaving of the callers, a reader of dest finds no file
\* or the whole content of a source (or of the file that was there before);
\* content written in part exists only in temporary siblings of dest, also after
\* a copy that failed.
C6_DestNeverPartial ==
    /\ DestContent(Here) \in Complete \cup {"absent"}
    /\ \A q \in DOMAIN fs :
        (fs[q].kind = "file" /\ inodes[fs[q].ino].data \notin Complete) => IsTemp(q)

\* C6's case: one caller is part of the way through its copy while the other's
\* copy has failed, and dest is there to be read
C6_Witness ==
    \E p \in DOMAIN pc : \E q \in DOMAIN pc :
        /\ p # q
        /\ pc[p] = "write" /\ inodes[call[p].ino].data = "partial"
        /\ Idle(q) /\ call[q].from = "copy" /\ call[q].err = "ENOSPC"
        /\ DestContent(Here) # "absent"

\* C7: a caller alone that repeats safe_copy(source, dest, overwrite=False) after
\* a call that returned finds dest with the content the first call left; and with
\* hard links, a repeated call that finds dest present never opens the source.
C7_SecondCallIdempotent ==
    \A p \in DOMAIN pc :
        LET c == call[p]
            repeated == done[p] >= 2 \/ (done[p] >= 1 /\ ~Idle(p))
        IN  (~c.overwrite /\ repeated) =>
                /\ (Solo /\ Idle(p) /\ c.firstErr = NoErr) => DestContent(Here) = c.first
                /\ (hasLink /\ c.before # "absent") => ~c.copied

\* C7's case: with hard links, the second call has met the file the first call
\* linked and has returned
C7_Witness ==
    /\ Solo /\ hasLink /\ Idle(1) /\ done[1] = 2
    /\ ~call[1].overwrite
    /\ call[1].firstErr = NoErr /\ call[1].first = "s"
    /\ call[1].linkErr = "EEXIST" /\ call[1].err = NoErr

\* C8: a link that fails with EEXIST, EXDEV or EPERM is never what the caller
\* gets: with EEXIST and overwrite false the call returns having done nothing,
\* otherwise it goes on to copy to a temporary sibling and rename.  A link that
\* fails with any other errno ends the call with that very error, without a copy,
\* dest as it was.
C8_LinkErrorsHandled ==
    \A p \in DOMAIN pc :
        LET c == call[p]
            noop == c.linkErr = "EEXIST" /\ ~c.overwrite
        IN  /\ c.linkErr \in Transient =>
                /\ c.from # "link"
                /\ noop => /\ Idle(p) /\ c.err = NoErr /\ ~c.copied
                           /\ Solo => DestContent(Here) = c.before
                /\ ~noop => /\ ~Idle(p) \/ c.copied
                            /\ (Solo /\ Idle(p) /\ c.err = NoErr) =>
                                   DestContent(Here) = SourceData(p)
            /\ c.linkErr \notin Transient \cup {NoErr} =>
                /\ Idle(p) /\ c.err = c.linkErr /\ c.from = "link"
                /\ ~c.copied /\ c.temp_dest = empty
                /\ Solo => DestContent(Here) = c.before

\* C8's case: one caller's link was refused with EPERM and its copy went
\* through, the other's link failed with an errno safe_copy does not handle
C8_Witness ==
    \E p \in DOMAIN pc : \E q \in DOMAIN pc :
        /\ Idle(p) /\ call[p].linkErr = "EPERM" /\ call[p].err = NoErr /\ call[p].copied
        /\ Idle(q) /\ call[q].linkErr = "EMLINK" /\ call[q].err = "EMLINK"

-----------------------------------------------------------------------------
(* The registry specification: the threads of a process, and of the child  *)
(* it forks, call register and teardown on _MKDTEMP_SINGLETON.  Every      *)
(* bytecode-level step that another thread can come between is one step.   *)
(* A fork copies the parent's memory: the registry, its sets, the lock.    *)

Procs == {"parent", "child"}
Threads == {"t1", "t2", "c1"}
ProcOf(t) == IF t = "c1" THEN "child" ELSE "parent"
getpid(proc) == IF proc = "parent" THEN 1 ELSE 2
RegPaths == {"d1", "d2"}
MaxRegistryCalls == 3                       \* register and teardown calls made in all
NoThread == "none"
NoSet == 0                                  \* the [] that pop returns by default

NoTCall ==
    [op |-> "none",
     path |-> "",           \* register's argument
     set |-> NoSet,         \* the set object the call holds a reference to
     size |-> 0,            \* the size the set iterator saw when it was made
     todo |-> {},           \* what the iterator has not yet produced
     td |-> "",             \* the loop variable
     popped |-> {},         \* what the popped set held when it was popped
     handed |-> {},         \* what this call handed to rmtree
     err |-> NoErr]

InitReg ==
    /\ registry = [proc \in Procs |-> <<>>]
    /\ heap = [proc \in Procs |-> <<>>]
    /\ lock = [proc \in Procs |-> NoThread]
    /\ tpc = [t \in Threads |-> "idle"]
    /\ tcall = [t \in Threads |-> NoTCall]
    /\ forked = FALSE
    /\ dirs = RegPaths
    /\ rmtreed = {}
    /\ returned = {}
    /\ made = 0
    /\ IdleChroot
    /\ fs = <<>> /\ inodes = <<>>
    /\ hasLink = TRUE
    /\ IdleCopy

Alive(t) == ProcOf(t) = "parent" \/ forked
Me(t) == getpid(ProcOf(t))
OtherVars == <<chrootVars, fsVars, copyVars>>

\* the set objects something still refers to: the registry, or a running call
Referenced(proc, reg, calls, pcs) ==
    {reg[k] : k \in DOMAIN reg}
    \cup {calls[t].set : t \in {u \in Threads : ProcOf(u) = proc /\ pcs[u] # "idle"}}

\* objects nothing refers to are freed
Freed(proc, h, reg, calls, pcs) ==
    [i \in (DOMAIN h) \cap Referenced(proc, reg, calls, pcs) |-> h[i]]

newSet(h) == CHOOSE i \in 1..(Cardinality(DOMAIN h) + 1) : i \notin DOMAIN h

\* register: with self._lock
RegAcquire(t) ==
    /\ Alive(t) /\ tpc[t] = "idle"
    /\ made < MaxRegistryCalls
    /\ made' = made + 1
    /\ lock[ProcOf(t)] = NoThread
    /\ \E path \in RegPaths :
        tcall' = [tcall EXCEPT ![t] = [NoTCall EXCEPT !.op = "register", !.path = path]]
    /\ lock' = [lock EXCEPT ![ProcOf(t)] = t]
    /\ tpc' = [tpc EXCEPT ![t] = "reg_lookup"]
    /\ UNCHANGED <<registry, heap, forked, dirs, rmtreed, returned, OtherVars>>

\* register: self._registry[self._getpid()], which makes the set when the key is
\* missing (defaultdict)
RegLookup(t) ==
    /\ tpc[t] = "reg_lookup"
    /\ LET proc == ProcOf(t)
           reg == registry[proc]
           i == IF Me(t) \in DOMAIN reg THEN reg[Me(t)] ELSE newSet(heap[proc])
       IN  /\ registry' = [registry EXCEPT ![proc] =
                              IF Me(t) \in DOMAIN reg THEN reg ELSE reg @@ (Me(t) :> i)]
           /\ heap' = [heap EXCEPT ![proc] =
                          IF Me(t) \in DOMAIN reg THEN @ ELSE @ @@ (i :> {})]
           /\ tcall' = [tcall EXCEPT ![t].set = i]
    /\ tpc' = [tpc EXCEPT ![t] = "reg_add"]
    /\ UNCHANGED <<lock, forked, dirs, rmtreed, returned, made, OtherVars>>

\* register: .add(path)
RegAdd(t) ==
    /\ tpc[t] = "reg_add"
    /\ heap' = [heap EXCEPT ![ProcOf(t)][tcall[t].set] = @ \cup {tcall[t].path}]
    /\ tpc' = [tpc EXCEPT ![t] = "reg_release"]
    /\ UNCHANGED <<registry, lock, tcall, forked, dirs, rmtreed, returned, made, OtherVars>>

\* register: the with block ends, return path
RegRelease(t) ==
    /\ tpc[t] = "reg_release"
    /\ lock' = [lock EXCEPT ![ProcOf(t)] = NoThread]
    /\ tpc' = [tpc EXCEPT ![t] = "idle"]
    /\ returned' = returned \cup {<<Me(t), tcall[t].path>>}
    /\ tcall' = [tcall EXCEPT ![t].set = NoSet]
    /\ heap' = [heap EXCEPT ![ProcOf(t)] =
                   Freed(ProcOf(t), @, registry[ProcOf(t)], tcall, tpc')]
    /\ UNCHANGED <<registry, forked, dirs, rmtreed, made, OtherVars>>

\* teardown: self._registry.pop(self._getpid(), [])
TdPop(t) ==
    /\ Alive(t) /\ tpc[t] = "idle"
    /\ made < MaxRegistryCalls
    /\ made' = made + 1
    /\ LET proc == ProcOf(t)
           reg == registry[proc]
           has == Me(t) \in DOMAIN reg
       IN  /\ registry' = [registry EXCEPT ![proc] = [k \in (DOMAIN reg) \ {Me(t)} |-> reg[k]]]
           /\ tcall' = [tcall EXCEPT ![t] =
                           [NoTCall EXCEPT !.op = "teardown",
                                           !.set = IF has THEN reg[Me(t)] ELSE NoSet,
                                           !.popped = IF has THEN heap[proc][reg[Me(t)]] ELSE {}]]
    /\ tpc' = [tpc EXCEPT ![t] = "td_iter"]
    /\ UNCHANGED <<heap, lock, forked, dirs, rmtreed, returned, OtherVars>>

Content(t) == IF tcall[t].set = NoSet THEN {} ELSE heap[ProcOf(t)][tcall[t].set]

\* teardown: the for statement makes the iterator, which notes the set's size
TdIter(t) ==
    /\ tpc[t] = "td_iter"
    /\ tcall' = [tcall EXCEPT ![t].size = Cardinality(Content(t)), ![t].todo = Content(t)]
    /\ tpc' = [tpc EXCEPT ![t] = "td_next"]
    /\ UNCHANGED <<registry, heap, lock, forked, dirs, rmtreed, returned, made, OtherVars>>

\* the call is over: its locals are gone, and with them its reference to the
\* set; what it popped and what it handed to rmtree is kept for the record
TdEnds(t, c) ==
    /\ tpc' = [tpc EXCEPT ![t] = "idle"]
    /\ tcall' = [tcall EXCEPT ![t] =
                    [c EXCEPT !.set = NoSet, !.size = 0, !.todo = {}, !.td = ""]]
    /\ heap' = [heap EXCEPT ![ProcOf(t)] =
                   Freed(ProcOf(t), @, registry[ProcOf(t)], tcall, tpc')]

\* teardown: the iterator is asked for the next element.  A set whose size has
\* changed since the iterator was made raises RuntimeError, which ends teardown
TdNext(t) ==
    /\ tpc[t] = "td_next"
    /\ IF Cardinality(Content(t)) # tcall[t].size
       THEN TdEnds(t, [tcall[t] EXCEPT !.err = "RuntimeError"])
       ELSE IF tcall[t].todo = {}
       THEN TdEnds(t, tcall[t])
       ELSE /\ \E td \in tcall[t].todo :
                tcall' = [tcall EXCEPT ![t].td = td, ![t].todo = @ \ {td}]
            /\ tpc' = [tpc EXCEPT ![t] = "td_rmtree"]
            /\ UNCHANGED heap
    /\ UNCHANGED <<registry, lock, forked, dirs, rmtreed, returned, made, OtherVars>>

\* teardown: self._rmtree(td, ignore_errors=True); a removal that fails is
\* passed over
TdRmtree(t) ==
    /\ tpc[t] = "td_rmtree"
    /\ \E removes \in BOOLEAN :
        dirs' = IF removes THEN dirs \ {tcall[t].td} ELSE dirs
    /\ rmtreed' = rmtreed \cup {<<Me(t), tcall[t].td>>}
    /\ tcall' = [tcall EXCEPT ![t].handed = @ \cup {tcall[t].td}]
    /\ tpc' = [tpc EXCEPT ![t] = "td_next"]
    /\ UNCHANGED <<registry, heap, lock, forked, returned, made, OtherVars>>

\* os.fork() by an idle thread of the parent: the child starts with a copy of the
\* parent's memory and with that one thread
Fork(t) ==
    /\ ~forked
    /\ ProcOf(t) = "parent" /\ tpc[t] = "idle"
    /\ forked' = TRUE
    /\ registry' = [registry EXCEPT !["child"] = registry["parent"]]
    /\ heap' = [heap EXCEPT !["child"] = heap["parent"]]
    /\ lock' = [lock EXCEPT !["child"] = lock["parent"]]
    /\ UNCHANGED <<tpc, tcall, dirs, rmtreed, returned, made, OtherVars>>

RegAcquires == \E t \in Threads : RegAcquire(t)
RegLooksUp == \E t \in Threads : RegLookup(t)
RegAdds == \E t \in Threads : RegAdd(t)
RegReleases == \E t \in Threads : RegRelease(t)
TdPops == \E t \in Threads : TdPop(t)
TdIters == \E t \in Threads : TdIter(t)
TdNexts == \E t \in Threads : TdNext(t)
TdRmtrees == \E t \in Threads : TdRmtree(t)
Forks == \E t \in Threads : Fork(t)

NextReg ==
    \/ RegAcquires
    \/ RegLooksUp
    \/ RegAdds
    \/ RegReleases
    \/ TdPops
    \/ TdIters
    \/ TdNexts
    \/ TdRmtrees
    \/ Forks

SpecReg == InitReg /\ [][NextReg]_vars

\* ---- properties of the registry ----

InRegister(t) == tpc[t] \in {"reg_lookup", "reg_add", "reg_release"}
InTeardown(t) == tpc[t] \in {"td_iter", "td_next", "td_rmtree"}
SameProcess(t, u) == t # u /\ ProcOf(t) = ProcOf(u) /\ Alive(t)

\* C9: registration and the teardown sweep are mutually exclusive: no thread is
\* inside register, between taking the lock and releasing it, while another
\* thread of the same process is inside teardown, between its pop and the end of
\* its removal loop.
C9_RegisterExcludesTeardown ==
    \A t, u \in Threads :
        SameProcess(t, u) => ~(InRegister(t) /\ InTeardown(u))

\* a thread is in teardown's sweep and holds no lock, while another thread of its
\* process holds the lock inside register
C9_Race ==
    \E t, u \in Threads :
        /\ SameProcess(t, u)
        /\ InRegister(t) /\ lock[ProcOf(t)] = t
        /\ InTeardown(u)

Pids == {getpid(proc) : proc \in Procs}

\* what a process's registry holds under a process id
Entry(reg, h, k) ==
    IF k \in DOMAIN reg THEN [present |-> TRUE, paths |-> h[reg[k]]]
    ELSE [present |-> FALSE, paths |-> {}]

TeardownStep(t) == TdPop(t) \/ TdIter(t) \/ TdNext(t) \/ TdRmtree(t)

TeardownOver(t) == tcall[t].op = "teardown" /\ tpc[t] = "idle"

\* a teardown that is over has handed to rmtree every directory its process id's
\* entry held when it was popped
RemovedAllOfIts(t) == tcall[t].popped \subseteq tcall[t].handed

\* a step of teardown leaves the other process ids' entries as they are, removes
\* only directories of its own process id's entry, and its pop clears that entry
TeardownFrame(t) ==
    LET proc == ProcOf(t)
    IN  /\ \A k \in Pids \ {Me(t)} :
               Entry(registry'[proc], heap'[proc], k) = Entry(registry[proc], heap[proc], k)
        /\ (dirs \ dirs') \subseteq (tcall'[t].popped \cup Content(t))
        /\ (rmtreed' \ rmtreed) \subseteq {<<Me(t), td>> : td \in tcall'[t].popped \cup Content(t)}
        /\ TdPop(t) => Me(t) \notin DOMAIN registry'[proc]
        /\ (TdPop(t) /\ Me(t) \notin DOMAIN registry[proc]) => tcall'[t].popped = {}

\* C10: teardown in a process with id P hands every directory registered under P
\* to removal, going on past removals that fail, and clears P's entry; it removes
\* no directory of, and changes no entry under, another process id, so a forked
\* child's teardown leaves the parent's directories, and a second teardown, which
\* finds no entry, removes nothing.
C10_TeardownRemovesAllOfItsPidOnly ==
    /\ [](\A t \in Threads : TeardownOver(t) => RemovedAllOfIts(t))
    /\ [][\A t \in Threads : TeardownStep(t) => TeardownFrame(t)]_vars

\* the frame alone, and the removal of everything when the loop ends normally
C10_FrameHolds == [][\A t \in Threads : TeardownStep(t) => TeardownFrame(t)]_vars
C10_RemovesAllUnlessRaised ==
    \A t \in Threads :
        (TeardownOver(t) /\ tcall[t].err = NoErr) => RemovedAllOfIts(t)

\* a teardown ended by RuntimeError with a popped directory never handed to rmtree
C10_Aborted ==
    \E t \in Threads :
        /\ TeardownOver(t) /\ tcall[t].err = "RuntimeError"
        /\ ~RemovedAllOfIts(t)

Quiet(proc) == \A t \in Threads : ProcOf(t) = proc => tpc[t] = "idle"

\* a path register returned for, under the process id of proc, that is neither
\* in proc's registry under that id nor was ever handed to rmtree under it
LostIn(proc) ==
    {x \in returned :
        /\ x[1] = getpid(proc)
        /\ x[2] \notin Entry(registry[proc], heap[proc], x[1]).paths
        /\ x \notin rmtreed}

\* C20: no registration is lost: whenever no call of a process is running, every
\* path register has returned for is in the registry under the process id or has
\* been handed to rmtree by a teardown.
C20_NoRegistrationLost ==
    \A proc \in Procs : Quiet(proc) => LostIn(proc) = {}

\* a teardown ran to its normal end while a register held the set it popped: the
\* path that register then added and returned is in no registry entry
C20_Lost ==
    /\ Quiet("parent")
    /\ \E t \in Threads : tcall[t].op = "teardown" /\ tcall[t].err = NoErr
    /\ LostIn("parent") # {}

-----------------------------------------------------------------------------
(* The clone specification: the add operations of the Chroot specification, *)
(* then one clone() of the Chroot they built, into the directory /c.        *)

CloneInto == <<"/", "c">>

Clone ==
    /\ cloned.result = NoCall
    /\ \E env \in LinkEnvs : \E r \in Chroot_clone(Self, CloneInto, hasLink, env) :
        /\ cloned' = [result |-> r.result, filesets |-> r.filesets, source |-> filesets]
        /\ fs' = r.w.fs
        /\ inodes' = r.w.inodes
    /\ UNCHANGED <<filesets, last, zipped, copyVars, regVars>>

AddsBeforeClone == cloned.result = NoCall /\ Next

NextClone == AddsBeforeClone \/ Clone

SpecClone == Init /\ [][NextClone]_vars

OneLabelPerPath(fsets) ==
    \A l1 \in DOMAIN fsets : \A l2 \in DOMAIN fsets :
        l1 # l2 => fsets[l1] \cap fsets[l2] = {}

Subset(part, whole) ==
    \A l \in DOMAIN part : l \in DOMAIN whole /\ part[l] \subseteq whole[l]

\* C19 as stated: after clone() of a Chroot in any reachable state, no tagging
\* conflict was raised, the clone's mapping equals the source's, no path of the
\* clone has two labels, and the source's mapping is what it was.
C19_CloneEqualsSource ==
    cloned.result # NoCall =>
        /\ cloned.result # "ChrootTaggingException"
        /\ cloned.filesets = cloned.source
        /\ OneLabelPerPath(cloned.filesets)
        /\ filesets = cloned.source

\* C19: clone() never raises a tagging conflict and leaves the source's mapping
\* as it was; when it returns, the clone's mapping equals the source's; when a
\* link raises (a tagged path with no file behind it), clone raises that error
\* and the mapping built so far is a part of the source's.  In both cases no
\* path of the clone has two labels.
C19_CloneEqualsSourceWhenItReturns ==
    cloned.result # NoCall =>
        /\ cloned.result # "ChrootTaggingException"
        /\ cloned.result = "ok" => cloned.filesets = cloned.source
        /\ Subset(cloned.filesets, cloned.source)
        /\ OneLabelPerPath(cloned.filesets)
        /\ filesets = cloned.source

\* C19's case: a Chroot with paths under both labels was cloned and clone returned
C19_Witness ==
    /\ cloned.result = "ok"
    /\ \A l \in Labels : l \in DOMAIN cloned.filesets /\ cloned.filesets[l] # {}
    /\ \A l \in Labels : \A fn \in cloned.filesets[l] : lexists(Here, join(CloneInto, fn))

-----------------------------------------------------------------------------
(* zip.  An archive is the sequence of entries zf.writestr was given.      *)

\* the characters of the paths used here, in code point order: str comparison
Alphabet == <<".", "/", "a", "b", "c", "d", "e", "f", "g", "p", "q", "r">>
ord(ch) == CHOOSE i \in DOMAIN Alphabet : Alphabet[i] = ch

\* a < b for str
RECURSIVE strLess(_, _)
strLess(a, b) ==
    IF b = empty THEN FALSE
    ELSE IF a = empty THEN TRUE
    ELSE IF Head(a) = Head(b) THEN strLess(Tail(a), Tail(b))
    ELSE ord(Head(a)) < ord(Head(b))

\* sorted(S) for a set of str
RECURSIVE sorted(_)
sortedFrom(S, least) == <<least>> \o sorted(S \ {least})
sorted(S) ==
    IF S = {} THEN <<>>
    ELSE sortedFrom(S, CHOOSE x \in S : \A y \in S \ {x} : strLess(x, y))

\* the components of a path that os.path.relpath compares
parts(path) == SelectSeq(split(normpath(path)), LAMBDA c : c # empty /\ c # curdir)

RECURSIVE commonLen(_, _)
commonLen(a, b) ==
    IF a = <<>> \/ b = <<>> \/ Head(a) # Head(b) THEN 0
    ELSE 1 + commonLen(Tail(a), Tail(b))

\* os.path.relpath(path, start), both relative to the same directory
relFrom(pp, sp, i) ==
    orCurdir(joinComps([k \in 1..(Len(sp) - i) |-> pardir] \o SubSeq(pp, i + 1, Len(pp))))
relParts(pp, sp) == relFrom(pp, sp, commonLen(pp, sp))
relpath(path, start) == relParts(parts(path), parts(start))

\* os.stat(filename): the mode a file made by open() under umask 022 has, with
\* the bits chmod_plus_x adds, the mode of a directory made by safe_mkdir, and
\* the modification time of the inode
st_mode(w, q) ==
    IF hasKind(w, q, "dir") THEN 16384 + 511
    ELSE 32768 + (IF w.inodes[w.fs[q].ino].x THEN 493 ELSE 420)
st_mtime(w, q) == w.inodes[w.fs[q].ino].mtime

\* DETERMINISTIC_DATETIME.timetuple()[:6]
DETERMINISTIC_DATETIME == <<1980, 1, 1, 0, 0, 0>>

\* time.localtime(st.st_mtime)[:6], for times within one minute
localtime(mtime) == <<2000, 1, 1, 0, 0, mtime>>

\* while arcname[0] in (os.sep, os.altsep): arcname = arcname[1:]
RECURSIVE lstripSep(_)
lstripSep(arcname) ==
    IF arcname # empty /\ Head(arcname) = sep THEN lstripSep(Tail(arcname)) ELSE arcname

\* zinfo.external_attr, a 32 bit field kept as its two 16 bit halves:
\* (st.st_mode & 0xFFFF) << 16, and for a directory |= 0x10
external_attr(mode, dir) ==
    [high |-> mode % 65536, low |-> IF dir THEN 16 ELSE 0]

\* zip_entry_from_file taking the file's time whatever date_time it is given
zip_entry_from_file_mtime(w, filename, arcname, deterministic) ==
    [filename |-> lstripSep(normpath(arcname)) \o (IF isdir(w, filename) THEN <<sep>> ELSE empty),
     date_time |-> localtime(st_mtime(w, resolve(w, filename))),
     external_attr |-> external_attr(st_mode(w, resolve(w, filename)), isdir(w, filename)),
     data |-> IF isdir(w, filename) THEN "" ELSE w.inodes[inoOf(w, filename)].data,
     src |-> filename]

\* the entry zip_entry_from_file(filename, arcname, date_time) makes of the
\* directory or the file at q; the bytes of a file are read here
entryAt(w, filename, q, arcname, dir, deterministic) ==
    [filename |-> IF dir THEN arcname \o <<sep>> ELSE arcname,
     date_time |-> IF deterministic THEN DETERMINISTIC_DATETIME
                   ELSE localtime(st_mtime(w, q)),
     external_attr |-> external_attr(st_mode(w, q), dir),
     data |-> IF dir THEN "" ELSE w.inodes[w.fs[q].ino].data,
     src |-> filename]
zip_entry_from_file(w, filename, arcname, deterministic) ==
    entryAt(w, filename, resolve(w, filename), lstripSep(normpath(arcname)),
            isdir(w, filename), deterministic)

\* _chmod without the shift: info.external_attr & 0xFFFF
_chmod_low_word(info) == info.external_attr.low

\* PermPreservingZipFile._chmod: info.external_attr >> 16, the mode os.chmod is
\* given
_chmod(info) == info.external_attr.high

\* write_entry of Chroot.zip; a is the call's arguments, no strip_prefix is empty
write_entry(w, a, filename, arcname) ==
    zip_entry_from_file(w, filename,
                        IF a.strip_prefix # empty THEN relpath(arcname, a.strip_prefix)
                        ELSE arcname,
                        a.deterministic_timestamp)

\* get_parent_dir of Chroot.zip; None is empty
parentOrNone(parent_dir) == IF parent_dir # curdir THEN parent_dir ELSE empty
get_parent_dir(path) == parentOrNone(normpath(dirname(path)))

\* maybe_write_parent_dirs of Chroot.zip; z holds the entries written so far
\* and written_dirs
RECURSIVE maybe_write_parent_dirs(_, _, _, _)
\* the step of maybe_write_parent_dirs without written_dirs.add(parent_dir)
writeParent_forgets(w, a, z, parent_dir) ==
    [entries |-> IF parent_dir # a.strip_prefix
                 THEN Append(z.entries, write_entry(w, a, join(chroot, parent_dir), parent_dir))
                 ELSE z.entries,
     written_dirs |-> z.written_dirs]
writeParent(w, a, z, parent_dir) ==
    [entries |-> IF parent_dir # a.strip_prefix
                 THEN Append(z.entries, write_entry(w, a, join(chroot, parent_dir), parent_dir))
                 ELSE z.entries,
     written_dirs |-> z.written_dirs \cup {parent_dir}]
writeParentsOf(w, a, z, parent_dir) ==
    IF parent_dir = empty \/ parent_dir \in z.written_dirs THEN z
    ELSE writeParent(w, a, maybe_write_parent_dirs(w, a, z, parent_dir), parent_dir)
maybe_write_parent_dirs(w, a, z, path) == writeParentsOf(w, a, z, get_parent_dir(path))

\* the names os.scandir finds in the directory q, and the order it gives them
\* in: the order the filesystem keeps, here ascending or descending
listdir(w, q) == {basename(y) : y \in {x \in DOMAIN w.fs : x # q /\ dirname(x) = q}}
reversed(s) == [i \in 1..Len(s) |-> s[Len(s) + 1 - i]]
scandir(names, order) == IF order = "asc" THEN sorted(names) ELSE reversed(sorted(names))

\* os.walk(top), top down: a (root, files) step for top, then the steps of each
\* subdirectory in the order scandir gave them; symbolic links are not entered
RECURSIVE walk(_, _, _)
RECURSIVE walkEach(_, _, _, _)
walkEach(w, top, subdirs, order) ==
    IF subdirs = <<>> THEN <<>>
    ELSE (IF hasKind(w, normpath(join(top, Head(subdirs))), "symlink") THEN <<>>
          ELSE walk(w, join(top, Head(subdirs)), order))
         \o walkEach(w, top, Tail(subdirs), order)
walk(w, top, order) ==
    IF ~hasKind(w, normpath(top), "dir") THEN <<>>
    ELSE <<[root |-> top,
            files |-> {n \in listdir(w, normpath(top)) : ~isdir(w, join(top, n))}]>>
         \o walkEach(w, top,
                     scandir({n \in listdir(w, normpath(top)) : isdir(w, join(top, n))}, order),
                     order)

\* exclude_file(arg): the predicate is the set of strings it answers True to
exclude_file(a, arg) == arg \in a.exclude_file

\* what iter_files of Chroot.zip yields for the files of one step of the walk of
\* the selected path: (abs_path, rel_path)
yieldWalked(path, full_path, abs_path) ==
    [filename |-> abs_path, arcname |-> join(path, relpath(abs_path, full_path)), path |-> path]
yieldEach(path, full_path, root, files) ==
    [i \in DOMAIN files |-> yieldWalked(path, full_path, join(root, files[i]))]
yieldStep(a, path, full_path, step) ==
    yieldEach(path, full_path, step.root,
              SelectSeq(sorted(step.files), LAMBDA f : ~exclude_file(a, f)))
RECURSIVE yieldSteps(_, _, _, _)
yieldSteps(a, path, full_path, steps) ==
    IF steps = <<>> THEN <<>>
    ELSE yieldStep(a, path, full_path, Head(steps)) \o yieldSteps(a, path, full_path, Tail(steps))

\* what iter_files yields for one selected path
yieldPath(w, a, path, full_path, order) ==
    IF isfile(w, full_path)
    THEN IF exclude_file(a, full_path) THEN <<>>
         ELSE <<[filename |-> full_path, arcname |-> path, path |-> path]>>
    ELSE yieldSteps(a, path, full_path, walk(w, full_path, order))

\* iter_files going through the selected paths in descending order
RECURSIVE iter_files_descending(_, _, _, _)
iter_files_descending(w, a, paths, order) ==
    IF paths = <<>> THEN <<>>
    ELSE iter_files_descending(w, a, Tail(paths), order)
         \o yieldPath(w, a, Head(paths), join(chroot, Head(paths)), order)

\* iter_files of Chroot.zip over paths = sorted(selected_files)
RECURSIVE iter_files(_, _, _, _)
iter_files(w, a, paths, order) ==
    IF paths = <<>> THEN <<>>
    ELSE yieldPath(w, a, Head(paths), join(chroot, Head(paths)), order)
         \o iter_files(w, a, Tail(paths), order)

\* Chroot.get and Chroot.files
Chroot_get(fsets, label) == IF label \in DOMAIN fsets THEN fsets[label] ELSE {}
Chroot_files(fsets) == UNION {fsets[label] : label \in DOMAIN fsets}

\* the selected_files of Chroot.zip: labels is [given, names], not given is None
selected_files(fsets, labels) ==
    IF labels.given /\ labels.names # {}
    THEN UNION {Chroot_get(fsets, label) : label \in labels.names}
    ELSE Chroot_files(fsets)

\* the loop of Chroot.zip over what iter_files yields
writeYielded(w, a, z, item) ==
    [entries |-> Append(z.entries, write_entry(w, a, item.filename, item.arcname)),
     written_dirs |-> z.written_dirs]
RECURSIVE writeAll(_, _, _, _)
writeAll(w, a, z, items) ==
    IF items = <<>> THEN z
    ELSE writeAll(w, a,
                  writeYielded(w, a, maybe_write_parent_dirs(w, a, z, Head(items).arcname),
                               Head(items)),
                  Tail(items))

\* Chroot.zip: the entries of the archive in the order they were written, what
\* iter_files yielded, and the order scandir answered in
zipYielded(w, a, order, items) ==
    [result |-> "ok", args |-> a, order |-> order, yielded |-> items,
     entries |-> writeAll(w, a, [entries |-> <<>>, written_dirs |-> {}], items).entries,
     chmods |-> <<>>]
Chroot_zip(c, a, order) ==
    zipYielded(c.w, a, order, iter_files(c.w, a, sorted(selected_files(c.filesets, a.labels)), order))

-----------------------------------------------------------------------------
(* The zip specification: a chroot filled by write and touch calls is      *)
(* serialized once; modification times change, and the archive is          *)
(* extracted.                                                              *)

ZipA == <<"a">>
ZipB == <<"b">>
ZipDC == <<"d", "/", "c">>
ZipE == <<"e">>
ZipEPF == <<"e", "/", "p", "/", "f">>
ZipEQG == <<"e", "/", "q", "/", "g">>

\* the files the chroot is filled with, and the label each is written under
Contents ==
    {{}, {ZipA, ZipB, ZipDC}, {ZipEPF, ZipEQG}, {ZipA, ZipDC, ZipEPF, ZipEQG}, {ZipB, ZipEPF}}
Labellings ==
    {[fn \in {ZipA, ZipB, ZipDC, ZipEPF, ZipEQG} |-> NoLabel],
     [fn \in {ZipA, ZipB, ZipDC, ZipEPF, ZipEQG} |-> "A"],
     [fn \in {ZipA, ZipB, ZipDC, ZipEPF, ZipEQG} |-> IF fn \in {ZipEPF, ZipEQG} THEN "A" ELSE NoLabel]}

\* chroot.write(data, fn, label, executable) for each file, the file a being
\* executable, then chroot.touch("e", label) when asked for: where e is a
\* directory by then, touch raises after it has tagged e
writeCalls(fns, labelling) ==
    [i \in DOMAIN fns |-> [op |-> "write", dst |-> fns[i], label |-> labelling[fns[i]]]]
touchCall(touched) ==
    IF touched = "no" THEN <<>> ELSE <<[op |-> "touch", dst |-> ZipE, label |-> touched]>>
called(c, x) ==
    IF x.op = "write" THEN Chroot_write(c, "w", x.dst, x.label, x.dst = ZipA)
    ELSE Chroot_touch(c, x.dst, x.label)
after(r) == [filesets |-> r.filesets, w |-> r.w]
RECURSIVE built(_, _)
built(c, calls) ==
    IF calls = <<>> THEN c ELSE built(after(called(c, Head(calls))), Tail(calls))

\* every directory gets an inode of its own, and every inode the modification
\* time 1
dirInode(w, q, qs) ==
    Cardinality(DOMAIN w.inodes) + (CHOOSE i \in DOMAIN qs : qs[i] = q)
stampedFs(w, qs) ==
    [q \in DOMAIN w.fs |->
        IF w.fs[q].kind = "dir" THEN [w.fs[q] EXCEPT !.ino = dirInode(w, q, qs)] ELSE w.fs[q]]
stampedInodes(w, qs) ==
    [i \in 1..(Cardinality(DOMAIN w.inodes) + Len(qs)) |->
        IF i \in DOMAIN w.inodes
        THEN [data |-> w.inodes[i].data, x |-> w.inodes[i].x, mtime |-> 1]
        ELSE [data |-> "", x |-> TRUE, mtime |-> 1]]
stamped(w) ==
    World(stampedFs(w, sorted({q \in DOMAIN w.fs : w.fs[q].kind = "dir"})),
          stampedInodes(w, sorted({q \in DOMAIN w.fs : w.fs[q].kind = "dir"})))

EmptyChroot ==
    [filesets |-> <<>>, w |-> World((<<sep>> :> DirNode) @@ (chroot :> DirNode), <<>>)]

InitZipFrom(c) ==
    /\ filesets = c.filesets
    /\ fs = stamped(c.w).fs
    /\ inodes = stamped(c.w).inodes

InitZip ==
    /\ \E fns \in Contents, labelling \in Labellings, touched \in {"no", NoLabel, "A"} :
        InitZipFrom(built(EmptyChroot, writeCalls(sorted(fns), labelling) \o touchCall(touched)))
    /\ last = NoCall /\ cloned = NotCloned /\ zipped = NotZipped
    /\ hasLink = TRUE
    /\ IdleCopy
    /\ IdleRegistry

\* the arguments of a zip call
LabelArgs ==
    {[given |-> FALSE, names |-> {}], [given |-> TRUE, names |-> {}],
     [given |-> TRUE, names |-> {"A", "B"}]}
StripPrefixes == {empty, <<"d">>, <<"d", "/">>}
ExcludeFiles == {{}, {<<"f">>}, {join(chroot, ZipEPF)}}
Orders == {"asc", "desc"}
ZipArgs ==
    [labels : LabelArgs, strip_prefix : StripPrefixes, exclude_file : ExcludeFiles,
     deterministic_timestamp : BOOLEAN]

Zip ==
    /\ zipped.result = NoCall
    /\ \E a \in ZipArgs, order \in Orders : zipped' = Chroot_zip(Self, a, order)
    /\ UNCHANGED <<filesets, last, cloned, fsVars, copyVars, regVars>>

\* os.utime(path, (2, 2)) on a path of the chroot's tree
UtimePaths == {join(chroot, ZipA), join(chroot, ZipE)}
Utime ==
    /\ \E q \in UtimePaths \cap DOMAIN fs : inodes' = [inodes EXCEPT ![fs[q].ino].mtime = 2]
    /\ UNCHANGED <<chrootVars, fs, copyVars, regVars>>

\* the archive is extracted with PermPreservingZipFile: _extract_member calls
\* _chmod for every member
Extract ==
    /\ zipped.result = "ok" /\ zipped.entries # <<>> /\ zipped.chmods = <<>>
    /\ zipped' = [zipped EXCEPT !.chmods = [i \in DOMAIN zipped.entries |-> _chmod(zipped.entries[i])]]
    /\ UNCHANGED <<filesets, last, cloned, fsVars, copyVars, regVars>>

NextZip == Zip \/ Utime \/ Extract

SpecZip == InitZip /\ [][NextZip]_vars

-----------------------------------------------------------------------------
(* Properties of zip                                                       *)

\* the archive the same call writes now, the directories enumerated in the same
\* order
Again == Chroot_zip(Self, zipped.args, zipped.order)

\* the inodes the entries of the archive were made from
StatOf(e) == fs[resolve(Here, e.src)].ino

\* C11: with deterministic_timestamp=True every entry carries 1980-01-01
\* 00:00:00, and the same call on the same content writes the same entries
\* whatever the modification times of the files and directories have become.
C11_DeterministicTimestamp ==
    (zipped.result = "ok" /\ zipped.args.deterministic_timestamp) =>
        /\ \A i \in DOMAIN zipped.entries :
            zipped.entries[i].date_time = DETERMINISTIC_DATETIME
        /\ Again.entries = zipped.entries

\* an archive with deterministic_timestamp=True was written and the time of
\* something it holds has changed since
C11_Witness ==
    /\ zipped.result = "ok" /\ zipped.args.deterministic_timestamp
    /\ \E i \in DOMAIN zipped.entries : inodes[StatOf(zipped.entries[i])].mtime = 2

\* the names of the entries of an archive, in the order they were written
Names(entries) == [i \in DOMAIN entries |-> entries[i].filename]

\* C12: the entry names of the archive come in the same order whatever order
\* the filesystem enumerates directories in, the order subdirectories are
\* visited in included.
C12_OrderIndependent ==
    zipped.result = "ok" =>
        \A order \in Orders :
            Names(Chroot_zip(Self, zipped.args, order).entries) = Names(zipped.entries)

\* an archive was written whose entry order another enumeration order changes
C12_OrderDependent ==
    /\ zipped.result = "ok"
    /\ \E order \in Orders :
        Names(Chroot_zip(Self, zipped.args, order).entries) # Names(zipped.entries)

\* a <= b for str
strLeq(a, b) == a = b \/ strLess(a, b)

\* the entries written for files, in the order they were written
FileEntries == SelectSeq(zipped.entries, LAMBDA e : ~isdir(Here, e.src))

\* the entry at i is that of a directory, and the entry at j lies inside it
Inside(i, j) ==
    /\ i # j
    /\ isdir(Here, zipped.entries[i].src)
    /\ startswith(zipped.entries[j].src, zipped.entries[i].src \o <<sep>>)

\* C13: the selected paths are emitted in lexicographic order: the selected
\* path of what iter_files yields never decreases, the file entries are what it
\* yielded in that order, and the entry of a directory comes before every
\* entry inside the directory.
C13_SelectedInOrderDirsFirst ==
    zipped.result = "ok" =>
        /\ \A i, j \in DOMAIN zipped.yielded :
            i < j => strLeq(zipped.yielded[i].path, zipped.yielded[j].path)
        /\ [i \in DOMAIN FileEntries |-> FileEntries[i].src]
             = [i \in DOMAIN zipped.yielded |-> zipped.yielded[i].filename]
        /\ \A i, j \in DOMAIN zipped.entries : Inside(i, j) => i < j

\* the files b, a and d/c were serialized as a, b, d/, d/c
C13_Witness ==
    /\ zipped.result = "ok"
    /\ Chroot_files(filesets) = {ZipA, ZipB, ZipDC}
    /\ Names(zipped.entries) = <<ZipA, ZipB, <<"d", "/">>, ZipDC>>

\* C14: a directory gets at most one entry in an archive, however many of the
\* serialized files lie beneath it: no two directory entries are of the same
\* directory or carry the same name.
C14_DirectoryWrittenOnce ==
    zipped.result = "ok" =>
        \A i, j \in DOMAIN zipped.entries :
            (/\ isdir(Here, zipped.entries[i].src)
             /\ isdir(Here, zipped.entries[j].src)
             /\ \/ resolve(Here, zipped.entries[i].src) = resolve(Here, zipped.entries[j].src)
                \/ zipped.entries[i].filename = zipped.entries[j].filename)
            => i = j

\* an archive holds the entry of a directory and two files beneath it in
\* different subdirectories
C14_Witness ==
    /\ zipped.result = "ok"
    /\ \E i, j, k \in DOMAIN zipped.entries :
        /\ Inside(i, j) /\ Inside(i, k)
        /\ ~isdir(Here, zipped.entries[j].src) /\ ~isdir(Here, zipped.entries[k].src)
        /\ dirname(zipped.entries[j].src) # dirname(zipped.entries[k].src)

\* the entry at i is that of the directory strip_prefix names
OfStripPrefix(i) ==
    resolve(Here, zipped.entries[i].src) = normpath(join(chroot, zipped.args.strip_prefix))

\* C15: whatever strip_prefix zip is given, the archive has no entry for the
\* strip_prefix directory itself.
C15_StripPrefixNeverEmitted ==
    (zipped.result = "ok" /\ zipped.args.strip_prefix # empty) =>
        \A i \in DOMAIN zipped.entries : ~OfStripPrefix(i)

\* an archive written with a strip_prefix holds an entry for that directory
C15_StripPrefixEmitted ==
    /\ zipped.result = "ok" /\ zipped.args.strip_prefix # empty
    /\ \E i \in DOMAIN zipped.entries : OfStripPrefix(i) /\ zipped.entries[i].filename = <<".", "/">>

\* the predicate answers True to the file, asked by its path or by its name
Matches(a, filename) == exclude_file(a, filename) \/ exclude_file(a, basename(filename))

\* C16: a file the exclude predicate matches gets no entry in the archive, and
\* so its bytes are never read (they are read only to make its entry).
C16_ExcludedNeverSerialized ==
    zipped.result = "ok" =>
        \A i \in DOMAIN zipped.entries :
            ~isdir(Here, zipped.entries[i].src) => ~Matches(zipped.args, zipped.entries[i].src)

\* an archive holds the entry of a file, with its bytes, that the predicate
\* answers True to when asked by the file's path
C16_ExcludedSerialized ==
    /\ zipped.result = "ok"
    /\ \E i \in DOMAIN zipped.entries :
        /\ exclude_file(zipped.args, zipped.entries[i].src)
        /\ zipped.entries[i].data = "w"

\* the paths the filesets of the labels given hold together, and every tracked
\* path when no labels are given
Wanted(fsets, labels) ==
    IF labels.given THEN UNION {Chroot_get(fsets, label) : label \in labels.names}
    ELSE Chroot_files(fsets)

\* C17: the files serialized are tracked under the labels given to zip, a
\* label the chroot does not have adding nothing; for an empty collection of
\* labels that is no file at all, and every tracked path is serialized only
\* when labels is not given.
C17_LabelsSelectExactly ==
    zipped.result = "ok" =>
        \A i \in DOMAIN zipped.yielded :
            zipped.yielded[i].filename
                \in {join(chroot, fn) : fn \in Wanted(filesets, zipped.args.labels)}

\* zip was given an empty collection of labels and serialized tracked files
C17_EmptyLabelsSerializeAll ==
    /\ zipped.result = "ok"
    /\ zipped.args.labels.given /\ zipped.args.labels.names = {}
    /\ zipped.entries # <<>>

\* the file the entry was made from was written with executable=True
Executable(e) == ~isdir(Here, e.src) /\ inodes[StatOf(e)].x

\* C18: for every entry of an extracted archive, file or directory, the mode
\* chmod was given is st_mode & 0xFFFF of the source, the low half of
\* external_attr holding the directory flag 0x10 and nothing else; the copy of
\* a file written with executable=True has the owner's x bit.
C18_ModeRoundTrip ==
    (zipped.result = "ok" /\ zipped.chmods # <<>>) =>
        \A i \in DOMAIN zipped.entries :
            /\ zipped.chmods[i] = st_mode(Here, resolve(Here, zipped.entries[i].src)) % 65536
            /\ zipped.entries[i].external_attr.low
                 = (IF isdir(Here, zipped.entries[i].src) THEN 16 ELSE 0)
            /\ Executable(zipped.entries[i]) => (zipped.chmods[i] \div 64) % 2 = 1

\* an archive holding an executable file, another file and a directory was
\* extracted
C18_Witness ==
    /\ zipped.result = "ok" /\ zipped.chmods # <<>>
    /\ \E i, j, k \in DOMAIN zipped.entries :
        /\ Executable(zipped.entries[i])
        /\ ~isdir(Here, zipped.entries[j].src) /\ ~Executable(zipped.entries[j])
        /\ isdir(Here, zipped.entries[k].src)

-----------------------------------------------------------------------------
(* Properties of a failed materialization                                  *)

\* the call ended in a materialization step: _normalize and _tag had passed
PastTag(r) == r.result # "Error" /\ r.result # "ChrootTaggingException"

\* the path dst names is in the fileset of label
Registered(fsets, dst, label) == label \in DOMAIN fsets /\ normpath(dst) \in fsets[label]

\* the node the path dst names in the chroot, none when nothing is there
NodeAt(w, dst) ==
    IF lexists(w, join(chroot, dst)) THEN <<w.fs[normpath(join(chroot, dst))]>> ELSE <<>>

-----------------------------------------------------------------------------
(* Entry names of one archive                                              *)

\* C22: within one zip call every entry name, file entries included, is written
\* at most once, also when a directory and a path inside it are both selected.
C22_EntryNamesUnique ==
    zipped.result = "ok" =>
        \A i, j \in DOMAIN zipped.entries :
            zipped.entries[i].filename = zipped.entries[j].filename => i = j

\* a tracked directory and a tracked file inside it were both selected, and the
\* archive holds two entries with the file's name
C22_FileWrittenTwice ==
    /\ zipped.result = "ok"
    /\ \E i, j \in DOMAIN zipped.yielded :
        /\ i < j
        /\ zipped.yielded[i].filename = zipped.yielded[j].filename
        /\ isdir(Here, join(chroot, zipped.yielded[i].path))
        /\ zipped.yielded[j].path = zipped.yielded[j].arcname
    /\ \E i, j \in DOMAIN zipped.entries :
        i # j /\ zipped.entries[i].filename = zipped.entries[j].filename

====
